---- MODULE Spec2Model ----
(***************************************************************************)
(* Model of multiqc/plots/scatter.py: plot() and highcharts_scatter_plot(). *)
(*                                                                         *)
(* Python objects that the code mutates in place or stores by reference    *)
(* live in heaps: point records (points), sample mappings (maps) and       *)
(* pconfig dicts (confs).  A dict is a function whose DOMAIN is the set of  *)
(* keys present.  Python sequences are 0-based, the sequences here 1-based. *)
(* Values whose Python type varies are tagged records [t, v].               *)
(***************************************************************************)
EXTENDS FiniteSets, Integers, Sequences, TLC

\* ---------------------------------------------------------------- bounds
NumPoints == 3
MaxK == 2
MaxCalls == 2

\* ------------------------------------------------------- python values
None == -999
EmptyDict == [k \in {} |-> 0]
NonPoint == 0

PyStr(s) == [t |-> "str", v |-> s]
PyInt(n) == [t |-> "int", v |-> n]
PyDict(d) == [t |-> "dict", v |-> d]
PyList(l) == [t |-> "list", v |-> l]

Put(d, k, v) == [kk \in DOMAIN d \cup {k} |-> IF kk = k THEN v ELSE d[kk]]
Update(d, e) == [kk \in DOMAIN d \cup DOMAIN e |-> IF kk \in DOMAIN e THEN e[kk] ELSE d[kk]]
Get(d, k, dflt) == IF k \in DOMAIN d THEN d[k] ELSE dflt

RECURSIVE Reverse(_)
Reverse(s) == IF s = <<>> THEN <<>> ELSE Append(Reverse(Tail(s)), Head(s))

Max2(a, b) == IF a >= b THEN a ELSE b

\* 1.02 * m; coordinates are multiples of 50, for which the product is exact
Pad(m) == (102 * m) \div 100

Addr == 1 .. NumPoints
MapAddr == 1 .. 2
\* cell 1 is the caller's pconfig object; cell 1 + n is the dict that call n
\* creates when it is given pconfig=None
CfgAddr == 1 .. (1 + MaxCalls)
DecoKeys == <<"color", "opacity", "marker_size", "marker_line_width">>

VARIABLES points, maps, confs, custom_plot_config, strict, mod_scatter,
          plot_data, num_hc_plots, html_ids,
          pc, calls, data, pconfig, plotdata, ret, kept, hook_result

vars == <<points, maps, confs, custom_plot_config, strict, mod_scatter,
          plot_data, num_hc_plots, html_ids,
          pc, calls, data, pconfig, plotdata, ret, kept, hook_result>>

\* kept is the value plotdata has at line 82, when the filter loop ends;
\* hook_result is what the template's scatter() did in the current call
NoRet == [kind |-> "none", exc |-> "", id |-> "", buttons |-> <<>>]
Raised(e) == [kind |-> "raise", exc |-> e, id |-> "", buttons |-> <<>>]

\* ------------------------------------------------- plot(): lines 46-82
SeriesConfigRaises(cfg, i) == "data_labels" \in DOMAIN cfg /\ i > Len(cfg["data_labels"])

SeriesConfig(cfg, i) ==
    IF "data_labels" \in DOMAIN cfg /\ cfg["data_labels"][i].t = "dict"
    THEN Update(cfg, cfg["data_labels"][i].v)
    ELSE cfg

\* OutOfRange with a defect: the lower bound on y is not compared
OutOfRange_NoYmin(p, sc) ==
    \/ /\ p["x"] # None
       /\ \/ "xmax" \in DOMAIN sc /\ p["x"] > sc["xmax"]
          \/ "xmin" \in DOMAIN sc /\ p["x"] < sc["xmin"]
    \/ /\ p["y"] # None
       /\ "ymax" \in DOMAIN sc /\ p["y"] > sc["ymax"]

OutOfRange(p, sc) ==
    \/ /\ p["x"] # None
       /\ \/ "xmax" \in DOMAIN sc /\ p["x"] > sc["xmax"]
          \/ "xmin" \in DOMAIN sc /\ p["x"] < sc["xmin"]
    \/ /\ p["y"] # None
       /\ \/ "ymax" \in DOMAIN sc /\ p["y"] > sc["ymax"]
          \/ "ymin" \in DOMAIN sc /\ p["y"] < sc["ymin"]

\* Named with a defect: a name the point carries is kept without the sample key
Named_KeepName(p, s_name) ==
    IF "name" \in DOMAIN p THEN p ELSE Put(p, "name", s_name)

Named(p, s_name) ==
    Put(p, "name", IF "name" \in DOMAIN p THEN s_name \o ": " \o p["name"] ELSE s_name)

DecoValue(v, s_name) ==
    IF v.t = "dict" /\ s_name \in DOMAIN v.v THEN v.v[s_name] ELSE v

Decorated(p, s_name, sc) ==
    LET ks == {DecoKeys[j] : j \in 1 .. Len(DecoKeys)} IN
    [k \in DOMAIN p \cup (ks \cap DOMAIN sc) |->
        IF k \in DOMAIN p THEN p[k] ELSE DecoValue(sc[k], s_name)]

\* the loop over ds[s_name]: st = [h |-> heap of points, d |-> list being built]
RECURSIVE DoPoints(_, _, _, _)
DoPoints(as, s_name, sc, st) ==
    IF as = <<>> THEN st
    ELSE LET a == Head(as)
             p == st.h[a]
         IN IF OutOfRange(p, sc)
            THEN DoPoints(Tail(as), s_name, sc, st)
            ELSE DoPoints(Tail(as), s_name, sc,
                          [h |-> [st.h EXCEPT ![a] = Decorated(Named(p, s_name), s_name, sc)],
                           d |-> Append(st.d, a)])

AsList(v) == IF v.t = "list" THEN v ELSE PyList(<<v.v>>)

\* the loop over the sample names of one dataset; j is the position in the mapping
\* st = [h, m |-> the mapping, d, err]
RECURSIVE DoSamples(_, _, _, _)
DoSamples(j, i, cfg, st) ==
    IF j > Len(st.m) THEN st
    ELSE IF SeriesConfigRaises(cfg, i) THEN [st EXCEPT !.err = "IndexError"]
    ELSE LET s_name == st.m[j][1]
             lst == AsList(st.m[j][2])
             r == DoPoints(lst.v, s_name, SeriesConfig(cfg, i), [h |-> st.h, d |-> st.d])
         IN DoSamples(j + 1, i, cfg,
                      [h |-> r.h, m |-> [st.m EXCEPT ![j] = <<s_name, lst>>], d |-> r.d, err |-> ""])

\* the loop over data; st = [h, ms |-> heap of mappings, pd |-> plotdata, err]
RECURSIVE DoDatasets(_, _, _, _)
DoDatasets(i, dat, cfg, st) ==
    IF i > Len(dat) THEN st
    ELSE LET r == DoSamples(1, i, cfg, [h |-> st.h, m |-> st.ms[dat[i]], d |-> <<>>, err |-> ""])
             ms2 == [st.ms EXCEPT ![dat[i]] = r.m]
         IN IF r.err # ""
            THEN [h |-> r.h, ms |-> ms2, pd |-> st.pd, err |-> r.err]
            ELSE DoDatasets(i + 1, dat, cfg,
                            [h |-> r.h, ms |-> ms2, pd |-> Append(st.pd, r.d), err |-> ""])

\* ------------------------------------------------- plot(): lines 84-95
RECURSIVE Flatten(_)
Flatten(pd) == IF pd = <<>> THEN <<>> ELSE Head(pd) \o Flatten(Tail(pd))

\* max_val after the two loops of lines 90-92, or None when max() raises TypeError
RECURSIVE MaxVal(_, _, _)
MaxVal(as, h, max_val) ==
    IF as = <<>> THEN max_val
    ELSE LET s == h[Head(as)] IN
         IF s["x"] = None \/ s["y"] = None THEN None
         ELSE MaxVal(Tail(as), h, Max2(Max2(max_val, s["x"]), s["y"]))

Truthy(cfg, k) == k \in DOMAIN cfg /\ cfg[k] = TRUE

\* returns [cfg, err]
Square(cfg, pd, h) ==
    IF ~Truthy(cfg, "square") THEN [cfg |-> cfg, err |-> ""]
    ELSE LET c1 == Put(cfg, "endOnTick", FALSE) IN
         IF "ymax" \notin DOMAIN cfg /\ "xmax" \notin DOMAIN cfg
         THEN LET m == MaxVal(Flatten(pd), h, 0) IN
              IF m = None THEN [cfg |-> c1, err |-> "TypeError"]
              ELSE [cfg |-> Put(Put(c1, "xmax", Pad(m)), "ymax", Pad(m)), err |-> ""]
         ELSE [cfg |-> c1, err |-> ""]

\* ------------------------------------------------ plot(): lines 97-109
PyTruthy(v, h) ==
    CASE v.t = "dict" -> DOMAIN h[v.v] # {}
      [] v.t = "list" -> Len(v.v) > 0
      [] v.t = "str" -> Len(v.v) > 0
      [] v.t = "int" -> v.v # 0

\* what a for loop over v visits: the elements of a list, the characters of a
\* str, the keys of a dict; an int is not iterable
Iter(v, h) ==
    CASE v.t = "list" -> [ok |-> TRUE, items |-> v.v]
      [] v.t = "str" -> [ok |-> TRUE, items |-> [j \in 1 .. Len(v.v) |-> PyStr(<<v.v[j]>>)]]
      [] v.t = "dict" -> [ok |-> TRUE,
                          items |-> [j \in 1 .. Cardinality(DOMAIN h[v.v]) |-> PyStr(<<"k">>)]]
      [] v.t = "int" -> [ok |-> FALSE, items |-> <<>>]

\* the object appended to plotdata[i]: a point record by reference, anything
\* else is abstracted to NonPoint
Elem(s) == IF s.t = "dict" THEN s.v ELSE NonPoint

\* the loop of line 106-107 for entry i; plotdata[i] raises IndexError
RECURSIVE AppendAll(_, _, _)
AppendAll(ss, i, pd) ==
    IF ss = <<>> THEN [pd |-> pd, err |-> ""]
    ELSE IF i > Len(pd) THEN [pd |-> pd, err |-> "IndexError"]
    ELSE AppendAll(Tail(ss), i, [pd EXCEPT ![i] = Append(@, Elem(Head(ss)))])

\* the loop of line 105; any exception ends the merge and is swallowed
RECURSIVE MergeFrom(_, _, _, _)
MergeFrom(ess, i, pd, h) ==
    IF ess = <<>> THEN pd
    ELSE LET it == Iter(Head(ess), h) IN
         IF ~it.ok THEN pd
         ELSE LET r == AppendAll(it.items, i, pd) IN
              IF r.err # "" THEN r.pd
              ELSE MergeFrom(Tail(ess), i + 1, r.pd, h)

\* NormExtra with a defect: a flat list of points is not wrapped
NormExtra_NoFlat(es) ==
    IF es.t = "dict" THEN PyList(<<PyList(<<es>>)>>) ELSE es

NormExtra(es) ==
    IF es.t = "dict" THEN PyList(<<PyList(<<es>>)>>)
    ELSE IF es.t = "list" /\ es.v[1].t = "dict" THEN PyList(<<es>>)
    ELSE es

ExtraSeries(cfg, pd, h) ==
    IF "extra_series" \in DOMAIN cfg /\ PyTruthy(cfg["extra_series"], h)
    THEN LET it == Iter(NormExtra(cfg["extra_series"]), h) IN
         IF it.ok THEN MergeFrom(it.items, 1, pd, h) ELSE pd
    ELSE pd

\* ------------------------------------- highcharts_scatter_plot(): 124-183
RandomIds == {"mqc_hcplot_a", "mqc_hcplot_b"}

\* report.save_htmlid
Sanitise(id) == IF id = "my plot" THEN "my_plot" ELSE id

RECURSIVE Unique(_, _, _)
Unique(base, n, taken) ==
    LET cand == IF n = 0 THEN base ELSE base \o "-" \o ToString(n) IN
    IF cand \in taken THEN Unique(base, n + 1, taken) ELSE cand

save_htmlid(id, taken) == Unique(Sanitise(id), 0, taken)

\* label of switch button k (lines 147-151)
ButtonName(cfg, k) ==
    LET dls == Get(cfg, "data_labels", <<>>) IN
    IF k <= Len(dls) /\ dls[k].t = "str" THEN dls[k].v
    ELSE IF k <= Len(dls) /\ "name" \in DOMAIN dls[k].v THEN dls[k].v["name"]
    ELSE ToString(k)

Buttons(cfg, pd) ==
    IF Len(pd) > 1
    THEN [k \in 1 .. Len(pd) |-> [n |-> ButtonName(cfg, k), active |-> (k = 1)]]
    ELSE <<>>

\* ReverseAll with a defect: the datasets stay in intake order
ReverseAll_Identity(pd) == pd

ReverseAll(pd) == [i \in 1 .. Len(pd) |-> Reverse(pd[i])]

Entry(pd, c) == [plot_type |-> "scatter", datasets |-> pd, config |-> c]

\* the whole of highcharts_scatter_plot(plotdata, pconfig), r the random id
HighchartsScatterPlot(r) ==
    LET cfg == confs[pconfig]
        id == save_htmlid(Get(cfg, "id", r), html_ids)
    IN /\ confs' = [confs EXCEPT ![pconfig] = Put(cfg, "id", id)]
       /\ html_ids' = html_ids \cup {id}
       /\ num_hc_plots' = num_hc_plots + 1
       /\ plotdata' = ReverseAll(plotdata)
       /\ plot_data' = Put(plot_data, id, Entry(ReverseAll(plotdata), pconfig))
       /\ ret' = [kind |-> "html", exc |-> "", id |-> id, buttons |-> Buttons(cfg, plotdata)]

\* ------------------------------------------------------- initial states
\* The objects the caller holds before the first call: point records, two
\* sample mappings and one pconfig dict.
Coord == {None} \cup {50 * k : k \in -1 .. MaxK}

RECURSIVE Range(_, _)
Range(a, b) == IF a > b THEN <<>> ELSE <<a>> \o Range(a + 1, b)

\* record NumPoints is the annotation point, the others are data points
DefPoint(a) ==
    IF a = 1 THEN [x |-> 50, y |-> 50]
    ELSE IF a = NumPoints THEN [x |-> 150, y |-> 150]
    ELSE [x |-> 100, y |-> 0, name |-> "p"]

DefPoints == [a \in Addr |-> DefPoint(a)]

\* {"s1": P1} and {"s2": [P2, ...], "s1": [P1]}
Map1 == << <<"s1", PyDict(1)>> >>
Map2 == << <<"s2", PyList(Range(2, NumPoints - 1))>>, <<"s1", PyList(<<1>>)>> >>
DefMaps == <<Map1, Map2>>

DefConf == [id |-> "plot1"]
P3 == PyDict(NumPoints)
P2 == PyDict(2)

Fixture(p, m, c, cu, st, mo) ==
    [points |-> p, maps |-> m, conf |-> c, custom |-> cu, strict |-> st, mod |-> mo]

BoundConfs ==
    { [id |-> "plot1", xmin |-> 25, xmax |-> 75],
      [id |-> "plot1", ymin |-> 25, ymax |-> 75],
      [id |-> "plot1", square |-> TRUE],
      [id |-> "plot1", square |-> FALSE],
      [id |-> "plot1", square |-> TRUE, ymax |-> 75],
      [id |-> "plot1", square |-> TRUE,
       data_labels |-> <<PyDict([name |-> "Run1", xmax |-> 75]), PyStr("Run2")>>],
      [id |-> "plot1", xmax |-> 125,
       data_labels |-> <<PyDict([name |-> "Run1", xmax |-> 75]),
                         PyDict([name |-> "Run2", ymin |-> 25])>>],
      [id |-> "plot1", xmax |-> 75, ymax |-> 75, extra_series |-> P3] }

CoordFixtures ==
    { Fixture([DefPoints EXCEPT ![1] = [x |-> cx, y |-> cy]], DefMaps, c, EmptyDict, FALSE, "absent") :
        cx \in Coord, cy \in Coord, c \in BoundConfs }

ExtraMenu ==
    { P3,
      PyList(<<P3>>),
      PyList(<<P3, P2>>),
      PyList(<<PyList(<<P3>>)>>),
      PyList(<<PyList(<<P3, P2>>), PyList(<<P2>>)>>),
      PyList(<<PyList(<<>>), PyList(<<P3>>)>>),
      PyList(<<PyList(<<P3>>), PyList(<<P2>>), PyList(<<P3>>)>>),
      PyList(<<>>),
      PyStr(<<"a", "b">>),
      PyInt(5),
      PyInt(0),
      PyList(<<PyList(<<P3>>), PyInt(5)>>),
      PyList(<<PyList(<<P3>>), P2>>),
      PyList(<<P3, PyInt(5)>>),
      PyList(<<PyInt(5), P3>>) }

ExtraFixtures ==
    { Fixture(DefPoints, DefMaps, [id |-> "plot1", extra_series |-> e], EmptyDict, FALSE, "absent") :
        e \in ExtraMenu }

LabelMenu ==
    { <<>>,
      <<PyStr("Run1")>>,
      <<PyDict([name |-> "Run1", xmax |-> 75])>>,
      <<PyDict([xmax |-> 75]), PyStr("Run2")>>,
      <<PyStr("Run1"), PyDict([name |-> "Run2"]), PyStr("Run3")>> }

LabelFixtures ==
    { Fixture(DefPoints, <<Map1, m2>>, [id |-> "plot1", data_labels |-> l], EmptyDict, FALSE, "absent") :
        m2 \in {Map2, <<>>}, l \in LabelMenu }

DecoMenu ==
    { [id |-> "plot1", color |-> PyStr("red")],
      [id |-> "plot1", color |-> PyDict([s1 |-> PyStr("blue")])],
      [id |-> "plot1", color |-> PyDict([s2 |-> PyStr("blue")]), opacity |-> PyInt(1)],
      [id |-> "plot1", color |-> PyDict(EmptyDict), marker_size |-> PyInt(5)],
      [id |-> "plot1", marker_line_width |-> PyDict([s1 |-> PyInt(2)]), marker_size |-> PyInt(5)],
      [id |-> "plot1", color |-> PyStr("red"),
       data_labels |-> <<PyDict([color |-> PyStr("black")]), PyStr("Run2")>>] }

DecoFixtures ==
    { Fixture([DefPoints EXCEPT ![1] = p], DefMaps, c, EmptyDict, FALSE, "absent") :
        p \in {DefPoint(1), [x |-> 50, y |-> 50, color |-> PyStr("green")]}, c \in DecoMenu }

HookFixtures ==
    { Fixture(DefPoints, DefMaps, DefConf, EmptyDict, st, mo) :
        st \in BOOLEAN, mo \in {"absent", "notcallable", "callable"} }

IdFixtures ==
    { Fixture(DefPoints, DefMaps, c, cu, FALSE, "absent") :
        c \in {EmptyDict, [id |-> "my plot"], [id |-> ""], DefConf},
        cu \in {EmptyDict, [plot1 |-> [xmax |-> 75, square |-> TRUE]]} }

Fixtures ==
    CoordFixtures \cup ExtraFixtures \cup LabelFixtures \cup DecoFixtures
        \cup HookFixtures \cup IdFixtures

Init ==
    /\ \E f \in Fixtures :
        /\ points = f.points
        /\ maps = f.maps
        /\ confs = [c \in CfgAddr |-> IF c = 1 THEN f.conf ELSE EmptyDict]
        /\ custom_plot_config = f.custom
        /\ strict = f.strict
        /\ mod_scatter = f.mod
    /\ plot_data = EmptyDict
    /\ num_hc_plots = 0
    /\ html_ids = {}
    /\ pc = "idle"
    /\ calls = 0
    /\ data = <<>>
    /\ pconfig = 0
    /\ plotdata = <<>>
    /\ ret = NoRet
    /\ kept = <<>>
    /\ hook_result = "none"

\* --------------------------------------------------------------- actions
DataInputs == {PyDict(1), PyList(<<>>), PyList(<<2>>), PyList(<<1, 2>>)}
NoConfig == 0

\* lines 32-42
Call(d, c) ==
    /\ pc = "idle"
    /\ calls < MaxCalls
    /\ LET cell == IF c = NoConfig THEN 2 + calls ELSE c
           cfg == IF c = NoConfig THEN EmptyDict ELSE confs[c]
           cfg2 == IF "id" \in DOMAIN cfg /\ cfg["id"] # "" /\ cfg["id"] \in DOMAIN custom_plot_config
                   THEN Update(cfg, custom_plot_config[cfg["id"]])
                   ELSE cfg
       IN /\ pconfig' = cell
          /\ confs' = [confs EXCEPT ![cell] = cfg2]
    /\ data' = IF d.t = "list" THEN d.v ELSE <<d.v>>
    /\ plotdata' = <<>>
    /\ ret' = NoRet
    /\ kept' = <<>>
    /\ hook_result' = "none"
    /\ pc' = "filter"
    /\ UNCHANGED <<points, maps, custom_plot_config, strict, mod_scatter,
                   plot_data, num_hc_plots, html_ids, calls>>

\* lines 45-82
FilterDecorate ==
    /\ pc = "filter"
    /\ LET r == DoDatasets(1, data, confs[pconfig],
                           [h |-> points, ms |-> maps, pd |-> <<>>, err |-> ""])
       IN /\ points' = r.h
          /\ maps' = r.ms
          /\ plotdata' = r.pd
          /\ kept' = r.pd
          /\ IF r.err # ""
             THEN pc' = "done" /\ ret' = Raised(r.err)
             ELSE pc' = "square" /\ ret' = ret
    /\ UNCHANGED <<confs, custom_plot_config, strict, mod_scatter,
                   plot_data, num_hc_plots, html_ids, calls, data, pconfig, hook_result>>

\* lines 84-95
SquareLayout ==
    /\ pc = "square"
    /\ LET r == Square(confs[pconfig], plotdata, points)
       IN /\ confs' = [confs EXCEPT ![pconfig] = r.cfg]
          /\ IF r.err # ""
             THEN pc' = "done" /\ ret' = Raised(r.err)
             ELSE pc' = "merge" /\ ret' = ret
    /\ UNCHANGED <<points, maps, custom_plot_config, strict, mod_scatter,
                   plot_data, num_hc_plots, html_ids, calls, data, pconfig, plotdata,
                   kept, hook_result>>

\* lines 97-109
MergeExtra ==
    /\ pc = "merge"
    /\ plotdata' = ExtraSeries(confs[pconfig], plotdata, points)
    /\ pc' = "render"
    /\ UNCHANGED <<points, maps, confs, custom_plot_config, strict, mod_scatter,
                   plot_data, num_hc_plots, html_ids, calls, data, pconfig, ret,
                   kept, hook_result>>

\* Render with a defect: a renderer failure is swallowed in strict mode too
Render_StrictIgnored(outcome, r) ==
    /\ pc = "render"
    /\ pc' = "done"
    /\ hook_result' = IF mod_scatter = "callable" THEN outcome ELSE "none"
    /\ IF mod_scatter = "callable" /\ outcome = "returns"
       THEN /\ ret' = [kind |-> "hook", exc |-> "", id |-> "", buttons |-> <<>>]
            /\ UNCHANGED <<confs, html_ids, num_hc_plots, plotdata, plot_data>>
       ELSE HighchartsScatterPlot(r)
    /\ UNCHANGED <<points, maps, custom_plot_config, strict, mod_scatter,
                   calls, data, pconfig, kept>>

\* lines 111-121; outcome is what mod.scatter does when it is called
Render(outcome, r) ==
    /\ pc = "render"
    /\ pc' = "done"
    /\ hook_result' = IF mod_scatter = "callable" THEN outcome ELSE "none"
    /\ IF mod_scatter = "callable" /\ outcome = "returns"
       THEN /\ ret' = [kind |-> "hook", exc |-> "", id |-> "", buttons |-> <<>>]
            /\ UNCHANGED <<confs, html_ids, num_hc_plots, plotdata, plot_data>>
       ELSE IF mod_scatter = "callable" /\ strict
       THEN /\ ret' = Raised("RendererError")
            /\ UNCHANGED <<confs, html_ids, num_hc_plots, plotdata, plot_data>>
       ELSE HighchartsScatterPlot(r)
    /\ UNCHANGED <<points, maps, custom_plot_config, strict, mod_scatter,
                   calls, data, pconfig, kept>>

\* plot() has returned or raised; the caller goes on
Return ==
    /\ pc = "done"
    /\ pc' = "idle"
    /\ calls' = calls + 1
    /\ data' = <<>>
    /\ plotdata' = <<>>
    /\ pconfig' = 0
    /\ kept' = <<>>
    /\ UNCHANGED <<points, maps, confs, custom_plot_config, strict, mod_scatter,
                   plot_data, num_hc_plots, html_ids, ret, hook_result>>

Next ==
    \/ \E d \in DataInputs, c \in {NoConfig, 1} : Call(d, c)
    \/ FilterDecorate
    \/ SquareLayout
    \/ MergeExtra
    \/ \E outcome \in {"returns", "raises"}, r \in RandomIds : Render(outcome, r)
    \/ Return

Spec == Init /\ [][Next]_vars

\* ------------------------------------------------------------ properties
Registered == pc = "done" /\ ret.kind = "html"
RegDatasets == plot_data[ret.id].datasets
RegConfig == confs[plot_data[ret.id].config]

\* pconfig overlaid with data_labels[i] when that entry is a mapping
Resolved(cfg, i) ==
    IF "data_labels" \in DOMAIN cfg /\ i <= Len(cfg["data_labels"])
       /\ cfg["data_labels"][i].t = "dict"
    THEN LET l == cfg["data_labels"][i].v IN
         [k \in DOMAIN cfg \cup DOMAIN l |-> IF k \in DOMAIN l THEN l[k] ELSE cfg[k]]
    ELSE cfg

WithinBounds(p, sc) ==
    /\ p["x"] # None =>
        /\ "xmax" \in DOMAIN sc => p["x"] <= sc["xmax"]
        /\ "xmin" \in DOMAIN sc => p["x"] >= sc["xmin"]
    /\ p["y"] # None =>
        /\ "ymax" \in DOMAIN sc => p["y"] <= sc["ymax"]
        /\ "ymin" \in DOMAIN sc => p["y"] >= sc["ymin"]

\* the <<sample key, record>> pairs that a mapping, or the whole data, lists
RECURSIVE PairsOfMap(_)
PairsOfMap(m) ==
    IF m = <<>> THEN <<>>
    ELSE LET e == Head(m)
             as == IF e[2].t = "list" THEN e[2].v ELSE <<e[2].v>>
         IN [j \in 1 .. Len(as) |-> <<e[1], as[j]>>] \o PairsOfMap(Tail(m))

RECURSIVE PairsOfData(_, _)
PairsOfData(dat, ms) ==
    IF dat = <<>> THEN <<>> ELSE PairsOfMap(ms[Head(dat)]) \o PairsOfData(Tail(dat), ms)

Occurrences(a, pairs) == Cardinality({j \in 1 .. Len(pairs) : pairs[j][2] = a})
SampleOf(a, pairs) == pairs[CHOOSE j \in 1 .. Len(pairs) : pairs[j][2] = a][1]

\* the points of the filter stage sit, reversed, at the end of each registered dataset
KeptRegistered(reg) ==
    /\ Len(reg) = Len(kept)
    /\ \A i \in 1 .. Len(kept) :
        /\ Len(reg[i]) >= Len(kept[i])
        /\ \A j \in 1 .. Len(kept[i]) : reg[i][Len(reg[i]) - j + 1] = kept[i][j]

\* C1 as stated: in the registered datasets no point, whatever stage added it,
\* has a non-null x or y outside the bounds of the resolved configuration of
\* its dataset.
C1_AllRegisteredPointsInBounds ==
    Registered =>
        \A i \in 1 .. Len(RegDatasets) : \A j \in 1 .. Len(RegDatasets[i]) :
            LET a == RegDatasets[i][j] IN
            a # NonPoint => WithinBounds(points[a], Resolved(RegConfig, i))

\* C1 amended: in the registered datasets every point that the filter stage
\* took from data lies within the bounds of the resolved configuration of its
\* dataset; the points appended from extra_series are not filtered.
C1_FilteredPointsInBounds ==
    Registered =>
        /\ KeptRegistered(RegDatasets)
        /\ \A i \in 1 .. Len(kept) : \A j \in 1 .. Len(kept[i]) :
            WithinBounds(points[kept[i][j]], Resolved(RegConfig, i))

C1_Witness ==
    /\ Registered
    /\ Len(data) = 2
    /\ "data_labels" \in DOMAIN RegConfig
    /\ kept[2] # <<>>
    /\ Len(kept[2]) < Len(PairsOfMap(maps[data[2]]))
    /\ \E i \in 1 .. 2 : \E j \in 1 .. Len(kept[i]) : points[kept[i][j]]["y"] = None

\* C2 as stated: every point present in a registered dataset has a name.
C2_AllRegisteredPointsNamed ==
    Registered =>
        \A i \in 1 .. Len(RegDatasets) : \A j \in 1 .. Len(RegDatasets[i]) :
            LET a == RegDatasets[i][j] IN
            a # NonPoint => "name" \in DOMAIN points[a]

\* C2 amended: every point that plot() took from data has a name in the
\* registered payload; for a record that data lists once the name is
\* "<sampleKey>: <originalName>" when the input carried a name and the sample
\* key otherwise.  Points appended from extra_series are stored as they are.
C2_DataPointsNamed ==
    [][/\ (pc = "filter" /\ pc' = "square") =>
            LET pairs == PairsOfData(data, maps) IN
            \A i \in 1 .. Len(plotdata') : \A j \in 1 .. Len(plotdata'[i]) :
                LET a == plotdata'[i][j] IN
                /\ "name" \in DOMAIN points'[a]
                /\ Occurrences(a, pairs) = 1 =>
                      points'[a]["name"] =
                          IF "name" \in DOMAIN points[a]
                          THEN SampleOf(a, pairs) \o ": " \o points[a]["name"]
                          ELSE SampleOf(a, pairs)
       /\ pc \in {"square", "merge", "render"} => points' = points
       /\ (pc = "render" /\ ret'.kind = "html") =>
            KeptRegistered(plot_data'[ret'.id].datasets)
      ]_vars

C2_Witness ==
    /\ Registered
    /\ \E i \in 1 .. Len(RegDatasets) : \E j \in 1 .. Len(RegDatasets[i]) :
        /\ RegDatasets[i][j] # NonPoint
        /\ "name" \notin DOMAIN points[RegDatasets[i][j]]
    /\ \E i \in 1 .. Len(kept) : \E j \in 1 .. Len(kept[i]) :
        points[kept[i][j]]["name"] = "s2: p"
    /\ \E i \in 1 .. Len(kept) : \E j \in 1 .. Len(kept[i]) :
        points[kept[i][j]]["name"] = "s1"

RECURSIVE IsSubseq(_, _)
IsSubseq(s, t) ==
    IF s = <<>> THEN TRUE
    ELSE IF t = <<>> THEN FALSE
    ELSE IF Head(s) = Head(t) THEN IsSubseq(Tail(s), Tail(t))
    ELSE IsSubseq(s, Tail(t))

ListedAddrs(m) == LET ps == PairsOfMap(m) IN [j \in 1 .. Len(ps) |-> ps[j][2]]

\* C3: each registered dataset is the exact reverse of the dataset as it was
\* after filtering, decoration and extra-series merge: the filter keeps the
\* input order, the merge appends at the end, the layout step leaves the order
\* alone and registration reverses every dataset; dataset i comes from data[i].
C3_Reversal ==
    [][/\ (pc = "filter" /\ pc' = "square") =>
            /\ Len(plotdata') = Len(data)
            /\ \A i \in 1 .. Len(data) : IsSubseq(plotdata'[i], ListedAddrs(maps[data[i]]))
       /\ pc = "square" => plotdata' = plotdata
       /\ pc = "merge" =>
            /\ Len(plotdata') = Len(plotdata)
            /\ \A i \in 1 .. Len(plotdata) :
                /\ Len(plotdata'[i]) >= Len(plotdata[i])
                /\ SubSeq(plotdata'[i], 1, Len(plotdata[i])) = plotdata[i]
       /\ (pc = "render" /\ ret'.kind = "html") =>
            LET reg == plot_data'[ret'.id].datasets IN
            /\ Len(reg) = Len(plotdata)
            /\ \A i \in 1 .. Len(plotdata) :
                /\ Len(reg[i]) = Len(plotdata[i])
                /\ \A j \in 1 .. Len(reg[i]) : reg[i][j] = plotdata[i][Len(plotdata[i]) - j + 1]
      ]_vars

C3_Witness ==
    /\ Registered
    /\ \E i \in 1 .. Len(RegDatasets) :
        /\ Len(RegDatasets[i]) = 3
        /\ RegDatasets[i][1] = 2
        /\ RegDatasets[i][2] = NumPoints
        /\ RegDatasets[i][3] = 1
        /\ kept[i] = <<1>>

MaxOf(S) == IF S = {} THEN 0 ELSE CHOOSE m \in S : \A n \in S : m >= n

\* C4: when square is truthy and neither xmax nor ymax is set, plot() sets
\* xmax = ymax = 1.02 * M, M the maximum of the non-null coordinates of the
\* points that survived filtering, 0 when there is none.
C4_SquareBounds ==
    [][(/\ pc = "square"
        /\ Truthy(confs[pconfig], "square")
        /\ "xmax" \notin DOMAIN confs[pconfig]
        /\ "ymax" \notin DOMAIN confs[pconfig]) =>
            LET as == {kept[i][j] : <<i, j>> \in {ij \in (1 .. Len(kept)) \X (1 .. NumPoints) :
                                                   ij[2] <= Len(kept[ij[1]])}}
                M == MaxOf(({points[a]["x"] : a \in as} \cup {points[a]["y"] : a \in as}) \ {None})
            IN /\ pc' = "merge"
               /\ confs'[pconfig]["xmax"] = (102 * M) \div 100
               /\ confs'[pconfig]["ymax"] = (102 * M) \div 100
      ]_vars

IsFlat(es) == es.t = "list" /\ \A j \in 1 .. Len(es.v) : es.v[j].t = "dict"
IsNested(es) ==
    /\ es.t = "list"
    /\ \A j \in 1 .. Len(es.v) :
        /\ es.v[j].t = "list"
        /\ \A k \in 1 .. Len(es.v[j].v) : es.v[j].v[k].t = "dict"
AddrsOf(l) == [j \in 1 .. Len(l) |-> l[j].v]

\* C5: a single extra point, or a flat sequence of them, is appended to the end
\* of dataset 0 and to no other dataset; a sequence of sequences no longer
\* than the datasets is appended entry by entry, entry i to dataset i; the
\* points are not modified.  (Dataset 0 has to exist.)
C5_ExtraSeriesPlacement ==
    [][(pc = "merge" /\ "extra_series" \in DOMAIN confs[pconfig]) =>
            LET es == confs[pconfig]["extra_series"] IN
            /\ points' = points
            /\ (es.t = "dict" /\ Len(plotdata) >= 1) =>
                    plotdata' = [plotdata EXCEPT ![1] = Append(@, es.v)]
            /\ (IsFlat(es) /\ Len(plotdata) >= 1) =>
                    plotdata' = [plotdata EXCEPT ![1] = @ \o AddrsOf(es.v)]
            /\ (IsNested(es) /\ Len(es.v) <= Len(plotdata)) =>
                    plotdata' = [i \in 1 .. Len(plotdata) |->
                                    IF i <= Len(es.v) THEN plotdata[i] \o AddrsOf(es.v[i].v)
                                    ELSE plotdata[i]]
      ]_vars

C5_Witness ==
    /\ pc = "render"
    /\ "extra_series" \in DOMAIN confs[pconfig]
    /\ IsNested(confs[pconfig]["extra_series"])
    /\ Len(confs[pconfig]["extra_series"].v) = 2
    /\ Len(plotdata) = 2
    /\ plotdata[1] = <<1, NumPoints, 2>>
    /\ plotdata[2] = kept[2] \o <<2>>

\* C6: the renderer hook absent, or raising with strict mode off: plot()
\* returns the built-in markup and registers the payload; raising with strict
\* mode on: the exception propagates and nothing is registered; succeeding:
\* its result is returned and the built-in generator does not run.
C6_RendererHook ==
    [][(pc = "render" /\ pc' = "done") =>
        /\ hook_result' = "none" <=> mod_scatter # "callable"
        /\ (hook_result' = "none" \/ (hook_result' = "raises" /\ ~strict)) =>
            /\ ret'.kind = "html"
            /\ ret'.id \notin DOMAIN plot_data
            /\ ret'.id \in DOMAIN plot_data'
            /\ plot_data'[ret'.id].config = pconfig
            /\ num_hc_plots' = num_hc_plots + 1
        /\ (hook_result' = "raises" /\ strict) =>
            /\ ret'.kind = "raise"
            /\ plot_data' = plot_data
            /\ num_hc_plots' = num_hc_plots
        /\ hook_result' = "returns" =>
            /\ ret'.kind = "hook"
            /\ plot_data' = plot_data
            /\ num_hc_plots' = num_hc_plots
            /\ html_ids' = html_ids
      ]_vars

C6_Witness ==
    /\ pc = "done"
    /\ hook_result = "raises"
    /\ strict
    /\ ret.kind = "raise"
    /\ ret.exc = "RendererError"
    /\ calls = 1
    /\ plot_data = EmptyDict

WellFormed(es, n) ==
    \/ es.t = "dict"
    \/ IsFlat(es)
    \/ IsNested(es) /\ Len(es.v) <= n

\* C7: a malformed extra_series never aborts plot() and is ignored: the
\* datasets keep exactly the filtered and decorated input points.
C7_MalformedExtraIgnored ==
    [][(/\ pc = "merge"
        /\ "extra_series" \in DOMAIN confs[pconfig]
        /\ ~WellFormed(confs[pconfig]["extra_series"], Len(plotdata))) =>
            /\ pc' = "render"
            /\ plotdata' = plotdata
      ]_vars

\* C8: a data_labels sequence shorter than the list of datasets is tolerated:
\* the call goes on, and a dataset without an entry is filtered by the plain
\* pconfig.
C8_ShortDataLabels ==
    [][(/\ pc = "filter"
        /\ "data_labels" \in DOMAIN confs[pconfig]
        /\ Len(confs[pconfig]["data_labels"]) < Len(data)) =>
            /\ pc' = "square"
            /\ Len(plotdata') = Len(data)
            /\ \A i \in (Len(confs[pconfig]["data_labels"]) + 1) .. Len(data) :
                LET as == ListedAddrs(maps[data[i]]) IN
                \A j \in 1 .. Len(as) :
                    WithinBounds(points[as[j]], confs[pconfig])
                        <=> \E n \in 1 .. Len(plotdata'[i]) : plotdata'[i][n] = as[j]
      ]_vars

\* C9: a decoration key that the point lacks and the resolved configuration
\* sets is filled with the scalar, or with the value mapped to the sample key,
\* or left unset when the mapping has no entry for the sample key; a key the
\* point carries is never overwritten.  (Stated for the first dataset, where
\* every record is visited for the first time.)
C9_Decoration ==
    [][(pc = "filter" /\ pc' = "square" /\ Len(data) >= 1) =>
            LET sc == Resolved(confs[pconfig], 1)
                pairs == PairsOfMap(maps[data[1]])
            IN \A j \in 1 .. Len(plotdata'[1]) :
                LET a == plotdata'[1][j]
                    s == SampleOf(a, pairs)
                IN \A n \in 1 .. Len(DecoKeys) :
                    LET k == DecoKeys[n] IN
                    IF k \in DOMAIN points[a]
                    THEN k \in DOMAIN points'[a] /\ points'[a][k] = points[a][k]
                    ELSE IF k \notin DOMAIN sc THEN k \notin DOMAIN points'[a]
                    ELSE IF sc[k].t # "dict"
                    THEN k \in DOMAIN points'[a] /\ points'[a][k] = sc[k]
                    ELSE IF s \in DOMAIN sc[k].v
                    THEN k \in DOMAIN points'[a] /\ points'[a][k] = sc[k].v[s]
                    ELSE k \notin DOMAIN points'[a]
      ]_vars

\* what a reader of registry entry k sees
View(pd, cf, h, k) ==
    LET e == pd[k] IN
    [config |-> cf[e.config],
     datasets |-> [i \in 1 .. Len(e.datasets) |->
                     [j \in 1 .. Len(e.datasets[i]) |->
                        IF e.datasets[i][j] = NonPoint THEN EmptyDict
                        ELSE h[e.datasets[i][j]]]]]

\* C10: a registered payload never changes: a later step keeps every entry,
\* with its config values, its points in the same order with the same names
\* and attributes, and its key equal to its config id.
C10_Immutable ==
    [][\A k \in DOMAIN plot_data :
        /\ k \in DOMAIN plot_data'
        /\ confs'[plot_data'[k].config]["id"] = k
        /\ View(plot_data', confs', points', k) = View(plot_data, confs, points, k)
      ]_vars

====
